---- MODULE Spec2Model ----
(***************************************************************************)
(* Model of scripts/create-stats-csv.py: the moment normaliser             *)
(* (normalize_stats), the sexagesimal parser (degree_to_float), the        *)
(* geolocation step (add_gps_coords) and the report assembly (main).       *)
(*                                                                         *)
(* Numbers: Python floats are modelled as exact rationals <<num, den>>     *)
(* with den > 0, reduced.  A string is a sequence of one-character         *)
(* strings.  A dict is a function from key strings to values.  An optional *)
(* value (None or a value) is a sequence of length 0 or 1.                 *)
(***************************************************************************)
EXTENDS Integers, Sequences, FiniteSets, TLC

VARIABLES
    pc,          \* position of main(): start, loop, gps, append, select, to_csv, done, failed
    args,        \* parsed command line: [gps, epsg]
    stats_json,  \* the document read from stdin: [image_stats, cumulative]
    files,       \* the metadata documents, by path
    proj_t,      \* the Transformer of the run, or None
    df,          \* the list of rows built by main()
    idx,         \* position of the for loop in image_stats
    im_stat,     \* the record the loop body is working on
    cols,        \* the selected column list
    frame,       \* the DataFrame after column selection
    csv,         \* the lines written to stdout (header first); <<>> = nothing written
    err,         \* the exception that ended the run, "" when none
    log,         \* the calls made so far, in order
    deg_str,     \* degree_to_float: its argument
    deg_res,     \* degree_to_float: its outcome
    st,          \* normalize_stats: its argument, then its result
    st_pc        \* normalize_stats: "idle", "call" or "returned"

vars == <<pc, args, stats_json, files, proj_t, df, idx, im_stat, cols, frame,
          csv, err, log, deg_str, deg_res, st, st_pc>>

mainVars == <<pc, args, stats_json, files, proj_t, df, idx, im_stat, cols,
              frame, csv, err, log>>
degVars == <<deg_str, deg_res>>
normVars == <<st, st_pc>>

(***************************************************************************)
(* Bounds                                                                  *)
(***************************************************************************)
MaxImages == 2
MaxLen == 6
MaxCount == 3
MaxSum == 4
MaxSum2 == 6

(***************************************************************************)
(* Float arithmetic, as exact rationals                                    *)
(***************************************************************************)
Abs(n) == IF n < 0 THEN -n ELSE n

RECURSIVE GCD(_, _)
GCD(a, b) == IF b = 0 THEN a ELSE GCD(b, a % b)

Rat(n, d) ==
    LET g == GCD(Abs(n), d)
    IN  IF g = 0 THEN <<0, 1>> ELSE <<n \div g, d \div g>>

RAdd(x, y) == Rat(x[1] * y[2] + y[1] * x[2], x[2] * y[2])
RNeg(x) == <<-x[1], x[2]>>
RSub(x, y) == RAdd(x, RNeg(y))
RMul(x, y) == Rat(x[1] * y[1], x[2] * y[2])
RDivInt(x, k) == Rat(x[1], x[2] * k)

\* x ** 0.5 on a Python float: the real square root for x >= 0, a complex
\* number for x < 0 (no exception).  The root is kept symbolic: sq is the
\* number whose principal square root is meant.
Pow05(x) ==
    IF x[1] >= 0
    THEN [kind |-> "real", sq |-> x]
    ELSE [kind |-> "complex", sq |-> x]

(***************************************************************************)
(* normalize_stats                                                         *)
(***************************************************************************)
Update(d, e) == e @@ d

NormalizeStats(s) ==
    LET count == s["count"]
        mean == Rat(s["sum"], count)
        var == RSub(Rat(s["sum_2"], count), RMul(mean, mean))
        std == Pow05(var)
    IN  Update(s, [mean |-> mean, std_dev |-> std])

(***************************************************************************)
(* degree_to_float                                                         *)
(***************************************************************************)
Digits == {"0", "1", "2", "3", "4", "5", "6", "7", "8", "9"}

DigitVal ==
    "0" :> 0 @@ "1" :> 1 @@ "2" :> 2 @@ "3" :> 3 @@ "4" :> 4 @@
    "5" :> 5 @@ "6" :> 6 @@ "7" :> 7 @@ "8" :> 8 @@ "9" :> 9

\* the complement of the character class of GPS_RE
IsNum(c) == c \in Digits \cup {"."}

\* GPS_RE.split(s): cut at every maximal run of non-numeric characters.
\* re.split keeps the empty strings before a leading and after a trailing run.
RECURSIVE SplitRec(_, _, _, _, _)
SplitRec(s, i, acc, cur, inSep) ==
    IF i > Len(s) THEN Append(acc, cur)
    ELSE IF IsNum(s[i]) THEN SplitRec(s, i + 1, acc, Append(cur, s[i]), FALSE)
    ELSE IF inSep THEN SplitRec(s, i + 1, acc, cur, TRUE)
    ELSE SplitRec(s, i + 1, Append(acc, cur), <<>>, TRUE)

\* variant: the split drops the empty fragments
SplitDiscardEmpty(s) ==
    LET NonEmpty(f) == f # <<>>
    IN  SelectSeq(SplitRec(s, 1, <<>>, <<>>, FALSE), NonEmpty)

GPS_RE_split(s) == SplitRec(s, 1, <<>>, <<>>, FALSE)

RECURSIVE DigitsToInt(_)
DigitsToInt(s) ==
    IF s = <<>> THEN 0
    ELSE 10 * DigitsToInt(SubSeq(s, 1, Len(s) - 1)) + DigitVal[s[Len(s)]]

RECURSIVE Pow10(_)
Pow10(k) == IF k = 0 THEN 1 ELSE 10 * Pow10(k - 1)

IsDigitChar(c) == c # "."

\* float(frag) for a fragment made of digits and dots: a value when there is
\* at most one dot and at least one digit, a ValueError otherwise
Float(frag) ==
    LET dots == {i \in 1..Len(frag) : frag[i] = "."}
        digs == SelectSeq(frag, IsDigitChar)
    IN  IF Cardinality(dots) > 1 \/ Len(digs) = 0
        THEN [ok |-> FALSE, v |-> <<0, 1>>]
        ELSE LET k == IF dots = {} THEN 0
                      ELSE Len(frag) - (CHOOSE i \in dots : TRUE)
             IN  [ok |-> TRUE, v |-> Rat(DigitsToInt(digs), Pow10(k))]

\* variant: S or W is looked for anywhere in the string
AnySouthOrWest(s) == \E i \in 1..Len(s) : s[i] = "S" \/ s[i] = "W"

\* deg_str[-1] == "S" or deg_str[-1] == "W"
IsSouthOrWest(s) == s[Len(s)] = "S" \/ s[Len(s)] = "W"

Combine(d, m, sec) == RAdd(RAdd(d, RDivInt(m, 60)), RDivInt(sec, 3600))

Failure(e) == [status |-> e, value |-> <<0, 1>>]

\* variant: a missing or empty seconds fragment counts as 0
DegreeToFloatDefaultSeconds(s) ==
    LET deg_comps == GPS_RE_split(s)
        sec == IF Len(deg_comps) < 3 \/ deg_comps[3] = <<>>
               THEN [ok |-> TRUE, v |-> <<0, 1>>]
               ELSE Float(deg_comps[3])
    IN  IF ~Float(deg_comps[1]).ok THEN Failure("ValueError")
        ELSE IF Len(deg_comps) < 2 THEN Failure("IndexError")
        ELSE IF ~Float(deg_comps[2]).ok THEN Failure("ValueError")
        ELSE IF ~sec.ok THEN Failure("ValueError")
        ELSE LET deg_float == Combine(Float(deg_comps[1]).v,
                                      Float(deg_comps[2]).v, sec.v)
             IN  [status |-> "ok",
                  value |-> IF IsSouthOrWest(s) THEN RNeg(deg_float)
                            ELSE deg_float]

\* The operands are evaluated left to right: deg_comps[0] (IndexError on a
\* list too short), float of it (ValueError), then deg_comps[1], and so on.
DegreeToFloat(s) ==
    LET deg_comps == GPS_RE_split(s)
    IN  IF Len(deg_comps) < 1 THEN Failure("IndexError")
        ELSE IF ~Float(deg_comps[1]).ok THEN Failure("ValueError")
        ELSE IF Len(deg_comps) < 2 THEN Failure("IndexError")
        ELSE IF ~Float(deg_comps[2]).ok THEN Failure("ValueError")
        ELSE IF Len(deg_comps) < 3 THEN Failure("IndexError")
        ELSE IF ~Float(deg_comps[3]).ok THEN Failure("ValueError")
        ELSE LET deg_float == Combine(Float(deg_comps[1]).v,
                                      Float(deg_comps[2]).v,
                                      Float(deg_comps[3]).v)
             IN  [status |-> "ok",
                  value |-> IF IsSouthOrWest(s) THEN RNeg(deg_float)
                            ELSE deg_float]

(***************************************************************************)
(* add_gps_coords                                                          *)
(***************************************************************************)
WGS84 == 4326

None == <<>>
Some(v) == <<v>>

\* Transformer.from_crs(4326, epsg) and its transform(): the projection
\* library is external, its results are kept as uninterpreted terms
FromCrs(src, dst) == [src |-> src, dst |-> dst]

Transform(t, lat, lon) ==
    <<[axis |-> "east", crs |-> t.dst, lat |-> lat, lon |-> lon],
      [axis |-> "north", crs |-> t.dst, lat |-> lat, lon |-> lon]>>

\* the outcome of add_gps_coords(stat, proj): the exception raised, or the
\* record with the coordinates added
AddGpsCoords(stat, proj) ==
    LET doc == files[stat["path"]]
        exif == IF doc.list THEN doc.body[1] ELSE doc.body
        lat == DegreeToFloat(exif["GPSLatitude"])
        lon == DegreeToFloat(exif["GPSLongitude"])
        geo == Update(stat, [latitude |-> lat.value, longitude |-> lon.value])
    IN  IF lat.status # "ok" THEN [status |-> lat.status, stat |-> stat]
        ELSE IF lon.status # "ok" THEN [status |-> lon.status, stat |-> stat]
        ELSE IF proj # None
        THEN LET en == Transform(proj[1], lat.value, lon.value)
             IN  [status |-> "ok",
                  stat |-> Update(geo, [easting |-> en[1], northing |-> en[2]])]
        ELSE [status |-> "ok", stat |-> geo]

(***************************************************************************)
(* main: the inputs                                                        *)
(***************************************************************************)
Range(f) == {f[x] : x \in DOMAIN f}

Str_40_26_46_N == <<"4", "0", " ", "2", "6", " ", "4", "6", " ", "N">>
Str_79_58_56_W == <<"7", "9", " ", "5", "8", " ", "5", "6", " ", "W">>
Str_33_51_54_S == <<"3", "3", " ", "5", "1", " ", "5", "4", ".", "5", " ", "S">>
Str_151_12_36_E == <<"1", "5", "1", " ", "1", "2", " ", "3", "6", " ", "E">>
Str_40_26_N == <<"4", "0", " ", "2", "6", " ", "N">>
Str_79_58 == <<"7", "9", " ", "5", "8">>
Str_79_W == <<"7", "9", " ", "W">>

\* metadata documents: a single object or a one-element list of one
ExifDocs ==
    { [list |-> FALSE,
       body |-> [GPSLatitude |-> Str_40_26_46_N, GPSLongitude |-> Str_79_58_56_W]],
      [list |-> TRUE,
       body |-> <<[GPSLatitude |-> Str_33_51_54_S, GPSLongitude |-> Str_151_12_36_E]>>],
      [list |-> FALSE,
       body |-> [GPSLatitude |-> Str_40_26_N, GPSLongitude |-> Str_79_58_56_W]],
      [list |-> FALSE,
       body |-> [GPSLatitude |-> Str_40_26_46_N, GPSLongitude |-> Str_79_58]],
      [list |-> TRUE,
       body |-> <<[GPSLatitude |-> Str_40_26_46_N, GPSLongitude |-> Str_79_W]>>] }

Paths == {"a.json", "b.json", "c.json"}

Accumulators ==
    { [count |-> 4, sum |-> 40, sum_2 |-> 408, min |-> 1, max |-> 19],
      [count |-> 2, sum |-> 3, sum_2 |-> 5, min |-> 1, max |-> 2] }

\* --epsg is an optional int: absent, 0, or a projected system
EpsgChoices == {None, Some(0), Some(32633)}

PathSeqs ==
    {ps \in UNION {[1..n -> Paths] : n \in 0..MaxImages} :
        \A i, j \in DOMAIN ps : ps[i] = ps[j] => i = j}

ImageStat(path, acc) ==
    [path |-> path, width |-> 10, height |-> 10, stats |-> acc]

NoArgs == [gps |-> FALSE, epsg |-> None]
NoInput == [image_stats |-> <<>>,
            cumulative |-> [count |-> 1, sum |-> 0, sum_2 |-> 0, min |-> 0, max |-> 0]]
NoRecord == [path |-> ""]
PendingDeg == [status |-> "pending", value |-> <<0, 1>>]
NoAcc == [count |-> 1, sum |-> 0, sum_2 |-> 0, min |-> 0, max |-> 0]

DegIdle == deg_str = <<>> /\ deg_res = PendingDeg
NormIdle == st = NoAcc /\ st_pc = "idle"
MainIdle ==
    /\ pc = "idle" /\ args = NoArgs /\ stats_json = NoInput
    /\ files = <<>> /\ proj_t = None /\ df = <<>> /\ idx = 0
    /\ im_stat = NoRecord /\ cols = <<>> /\ frame = <<>> /\ csv = <<>>
    /\ err = "" /\ log = <<>>

Init ==
    /\ pc = "start"
    /\ args \in [gps : BOOLEAN, epsg : EpsgChoices]
    /\ \E ps \in PathSeqs :
         /\ \E accs \in [DOMAIN ps -> Accumulators], cum \in Accumulators :
              stats_json =
                [image_stats |-> [i \in DOMAIN ps |-> ImageStat(ps[i], accs[i])],
                 cumulative |-> cum]
         /\ files \in [Range(ps) -> ExifDocs]
    /\ proj_t = None /\ df = <<>> /\ idx = 0
    /\ im_stat = NoRecord /\ cols = <<>> /\ frame = <<>> /\ csv = <<>>
    /\ err = "" /\ log = <<>>
    /\ DegIdle /\ NormIdle

(***************************************************************************)
(* main: the steps                                                         *)
(***************************************************************************)
Truthy(opt) == opt # None /\ opt[1] # 0

NumImages == Len(stats_json.image_stats)

\* lines 50-57: the arguments and the input are read, the Transformer is
\* made when both --gps and a truthy --epsg are given
GetArgs ==
    /\ pc = "start"
    /\ proj_t' = IF args.gps /\ Truthy(args.epsg)
                 THEN Some(FromCrs(WGS84, args.epsg[1]))
                 ELSE None
    /\ df' = <<>>
    /\ idx' = 1
    /\ pc' = "loop"
    /\ UNCHANGED <<args, stats_json, files, im_stat, cols, frame, csv, err, log>>
    /\ UNCHANGED <<degVars, normVars>>

\* lines 58-60: the statistics of the next record are normalised in place
\* and merged into the record
LoopNormalize ==
    /\ pc = "loop"
    /\ idx <= NumImages
    /\ LET rec == stats_json.image_stats[idx]
           stat == NormalizeStats(rec["stats"])
       IN  im_stat' = Update([rec EXCEPT !["stats"] = stat], stat)
    /\ log' = Append(log, [op |-> "normalize_stats", i |-> idx])
    /\ pc' = IF args.gps THEN "gps" ELSE "append"
    /\ UNCHANGED <<args, stats_json, files, proj_t, df, idx, cols, frame, csv, err>>
    /\ UNCHANGED <<degVars, normVars>>

\* line 61: add_gps_coords; an exception of it ends the run
LoopGps ==
    /\ pc = "gps"
    /\ LET r == AddGpsCoords(im_stat, proj_t)
       IN  IF r.status = "ok"
           THEN /\ im_stat' = r.stat
                /\ pc' = "append"
                /\ err' = err
           ELSE /\ im_stat' = im_stat
                /\ pc' = "failed"
                /\ err' = r.status
    /\ log' = Append(log, [op |-> "add_gps_coords", i |-> idx])
    /\ UNCHANGED <<args, stats_json, files, proj_t, df, idx, cols, frame, csv>>
    /\ UNCHANGED <<degVars, normVars>>

\* variant: the row is put in front
PrependRow(rows, row) == <<row>> \o rows

AppendRow(rows, row) == Append(rows, row)

\* line 62
LoopAppend ==
    /\ pc = "append"
    /\ df' = AppendRow(df, im_stat)
    /\ idx' = idx + 1
    /\ pc' = "loop"
    /\ UNCHANGED <<args, stats_json, files, proj_t, im_stat, cols, frame, csv, err, log>>
    /\ UNCHANGED <<degVars, normVars>>

\* lines 64-66: after the loop, the cumulative row
Cumulative ==
    /\ pc = "loop"
    /\ idx > NumImages
    /\ LET tot == Update(NormalizeStats(stats_json.cumulative), [path |-> "cumulative"])
       IN  df' = AppendRow(df, tot)
    /\ log' = Append(log, [op |-> "normalize_stats", i |-> 0])
    /\ pc' = "select"
    /\ UNCHANGED <<args, stats_json, files, proj_t, idx, im_stat, cols, frame, csv, err>>
    /\ UNCHANGED <<degVars, normVars>>

BaseCols == <<"path", "width", "height", "min", "max", "mean", "std_dev">>

\* variant: the projected columns replace latitude, longitude
SelectedColsEpsgReplaces(a) ==
    IF a.gps
    THEN IF a.epsg # None
         THEN BaseCols \o <<"easting", "northing">>
         ELSE BaseCols \o <<"latitude", "longitude">>
    ELSE BaseCols

\* lines 69-73
SelectedCols(a) ==
    IF a.gps
    THEN IF a.epsg # None
         THEN BaseCols \o <<"latitude", "longitude">> \o <<"easting", "northing">>
         ELSE BaseCols \o <<"latitude", "longitude">>
    ELSE BaseCols

\* P.DataFrame(list of dicts): the columns are the union of the keys, a key
\* a row lacks is NaN in that row
FrameColumns(rows) == UNION {DOMAIN rows[r] : r \in DOMAIN rows}

NaN == [nan |-> TRUE]
Value(v) == [nan |-> FALSE, v |-> v]

Cell(row, c) == IF c \in DOMAIN row THEN Value(row[c]) ELSE NaN

\* lines 68-74: df[cols] raises KeyError when a label is not a column
SelectCols ==
    /\ pc = "select"
    /\ cols' = SelectedCols(args)
    /\ IF Range(cols') \subseteq FrameColumns(df)
       THEN /\ frame' = [r \in DOMAIN df |-> [k \in DOMAIN cols' |-> Cell(df[r], cols'[k])]]
            /\ pc' = "to_csv"
            /\ err' = err
       ELSE /\ frame' = frame
            /\ pc' = "failed"
            /\ err' = "KeyError"
    /\ UNCHANGED <<args, stats_json, files, proj_t, df, idx, im_stat, csv, log>>
    /\ UNCHANGED <<degVars, normVars>>

\* to_csv writes NaN as an empty field (na_rep = '')
Field(cell) == IF cell.nan THEN <<>> ELSE <<cell.v>>

\* line 75: the header, then one line per row, no index column
ToCsv ==
    /\ pc = "to_csv"
    /\ csv' = <<cols>> \o [r \in DOMAIN frame |-> [k \in DOMAIN cols |-> Field(frame[r][k])]]
    /\ pc' = "done"
    /\ UNCHANGED <<args, stats_json, files, proj_t, df, idx, im_stat, cols, frame, err, log>>
    /\ UNCHANGED <<degVars, normVars>>

Next ==
    \/ GetArgs
    \/ LoopNormalize
    \/ LoopGps
    \/ LoopAppend
    \/ Cumulative
    \/ SelectCols
    \/ ToCsv

Spec == Init /\ [][Next]_vars

(***************************************************************************)
(* degree_to_float on its own: every string up to MaxLen over an alphabet  *)
(* with a digit, the dot, both negating letters and one other character    *)
(***************************************************************************)
Alphabet == {"1", ".", "S", "W", "N"}

Strings == UNION {[1..n -> Alphabet] : n \in 0..MaxLen}

InitDeg ==
    /\ deg_str \in Strings
    /\ deg_res = PendingDeg
    /\ MainIdle /\ NormIdle

CallDegreeToFloat ==
    /\ deg_res.status = "pending"
    /\ deg_res' = DegreeToFloat(deg_str)
    /\ UNCHANGED <<deg_str, mainVars, normVars>>

NextDeg == CallDegreeToFloat

SpecDeg == InitDeg /\ [][NextDeg]_vars

(***************************************************************************)
(* normalize_stats on its own: every accumulator with count >= 1 within    *)
(* the bounds                                                              *)
(***************************************************************************)
InitNorm ==
    /\ st \in [count : 1..MaxCount, sum : 0..MaxSum, sum_2 : 0..MaxSum2,
               min : {0}, max : {MaxSum}]
    /\ st_pc = "call"
    /\ MainIdle /\ DegIdle

CallNormalizeStats ==
    /\ st_pc = "call"
    /\ st' = NormalizeStats(st)
    /\ st_pc' = "returned"
    /\ UNCHANGED <<mainVars, degVars>>

NextNorm == CallNormalizeStats

SpecNorm == InitNorm /\ [][NextNorm]_vars

(***************************************************************************)
(* Definitions used to state the properties                                *)
(***************************************************************************)
RAbs(x) == <<Abs(x[1]), x[2]>>

\* the length of the longest prefix of s whose characters are all numeric
\* (num = TRUE) or all non-numeric (num = FALSE)
LeadLen(s, num) ==
    CHOOSE k \in 0..Len(s) :
        /\ \A i \in 1..k : IsNum(s[i]) = num
        /\ k = Len(s) \/ IsNum(s[k + 1]) # num

Drop(s, k) == SubSeq(s, k + 1, Len(s))
Take(s, k) == SubSeq(s, 1, k)

\* what follows the first numeric run and the separator run after it
AfterComponent(s) ==
    LET r == Drop(s, LeadLen(s, TRUE))
    IN  Drop(r, LeadLen(r, FALSE))

\* the numeric runs a left-to-right scan finds at the start of s, after one
\* separator run, and after a second one
ScanDegrees(s) == Take(s, LeadLen(s, TRUE))
ScanMinutes(s) == ScanDegrees(AfterComponent(s))
ScanSeconds(s) == ScanDegrees(AfterComponent(AfterComponent(s)))

ScanOk(s) ==
    /\ Float(ScanDegrees(s)).ok
    /\ Float(ScanMinutes(s)).ok
    /\ Float(ScanSeconds(s)).ok

\* degrees + minutes/60 + seconds/3600 over the common denominator 3600
ScanMagnitude(s) ==
    LET d == Float(ScanDegrees(s)).v
        m == Float(ScanMinutes(s)).v
        c == Float(ScanSeconds(s)).v
    IN  Rat(3600 * d[1] * m[2] * c[2] + 60 * m[1] * d[2] * c[2] + c[1] * d[2] * m[2],
            3600 * d[2] * m[2] * c[2])

LastChar(s) == s[Len(s)]

HasLeadingRun(s) == s # <<>> /\ ~IsNum(s[1])
WithoutLeadingRun(s) == Drop(s, LeadLen(s, FALSE))

\* the number of maximal numeric runs of s
NumericRuns(s) ==
    Cardinality({i \in 1..Len(s) : IsNum(s[i]) /\ (i = 1 \/ ~IsNum(s[i - 1]))})

ExifOf(i) ==
    LET doc == files[stats_json.image_stats[i]["path"]]
    IN  IF doc.list THEN doc.body[1] ELSE doc.body

LacksComponent(i) ==
    \/ NumericRuns(ExifOf(i)["GPSLatitude"]) < 3
    \/ NumericRuns(ExifOf(i)["GPSLongitude"]) < 3

\* the string of record i at which parsing stops
FailingString(i) ==
    IF NumericRuns(ExifOf(i)["GPSLatitude"]) < 3
    THEN ExifOf(i)["GPSLatitude"]
    ELSE ExifOf(i)["GPSLongitude"]

BadRecords == {i \in 1..NumImages : LacksComponent(i)}
FirstBad == CHOOSE i \in BadRecords : \A j \in BadRecords : i <= j

WellFormedInput == args.gps => BadRecords = {}

Header == csv[1]
EpsgGiven == args.epsg # None
Terminated == pc \in {"done", "failed"}

(***************************************************************************)
(* C1                                                                      *)
(***************************************************************************)
\* C1: a run with --epsg but without --gps is rejected before any record is
\* normalised or any row produced; it never goes on to a normal report.
C1_EpsgWithoutGpsRejected ==
    (pc # "idle" /\ EpsgGiven /\ ~args.gps) =>
        /\ pc \in {"start", "failed"}
        /\ log = <<>> /\ df = <<>> /\ csv = <<>>

(***************************************************************************)
(* C2                                                                      *)
(***************************************************************************)
\* C2: normalize_stats on an accumulator with count >= 1 yields
\* std_dev = sqrt(max(sum_2/count - mean^2, 0)), a non-negative real.
C2_StdDevClamped ==
    st_pc = "returned" =>
        LET radicand == Rat(st["sum_2"] * st["count"] - st["sum"] * st["sum"],
                            st["count"] * st["count"])
        IN  /\ st["std_dev"].kind = "real"
            /\ st["std_dev"].sq = IF radicand[1] < 0 THEN <<0, 1>> ELSE radicand

(***************************************************************************)
(* C3                                                                      *)
(***************************************************************************)
\* C3: for every well-formed input with n >= 0 image records and every flag
\* combination the run writes n + 1 rows, the last one the cumulative row.
C3_RowCount ==
    (Terminated /\ WellFormedInput) =>
        /\ pc = "done"
        /\ Len(csv) = 1 + NumImages + 1
        /\ csv[Len(csv)][1] = <<"cumulative">>

(***************************************************************************)
(* C4                                                                      *)
(***************************************************************************)
\* C4: the columns written are the seven base columns without --gps, those
\* plus latitude, longitude with --gps and no --epsg, those plus easting,
\* northing with --gps and --epsg; count, sum, sum_2 are never columns.
C4_ColumnSet ==
    pc = "done" =>
        /\ ~args.gps =>
             Header = <<"path", "width", "height", "min", "max", "mean", "std_dev">>
        /\ (args.gps /\ ~EpsgGiven) =>
             Header = <<"path", "width", "height", "min", "max", "mean", "std_dev",
                        "latitude", "longitude">>
        /\ (args.gps /\ EpsgGiven) =>
             Header = <<"path", "width", "height", "min", "max", "mean", "std_dev",
                        "latitude", "longitude", "easting", "northing">>
        /\ Range(Header) \cap {"count", "sum", "sum_2"} = {}
        /\ \A r \in 2..Len(csv) : Len(csv[r]) = Len(Header)

C4_Witness ==
    /\ pc = "done" /\ args.gps /\ EpsgGiven
    /\ NumImages >= 1
    /\ Len(Header) = 11

(***************************************************************************)
(* C5                                                                      *)
(***************************************************************************)
\* C5: a selected column that a row lacks is written as an empty field and
\* the run does not fail, also when no row at all has the column.
C5_MissingRendered ==
    /\ err # "KeyError"
    /\ pc = "done" =>
         \A r \in DOMAIN df, k \in DOMAIN cols :
             cols[k] \notin DOMAIN df[r] => csv[r + 1][k] = <<>>

(***************************************************************************)
(* C6                                                                      *)
(***************************************************************************)
\* C6: the result of degree_to_float is the combined value
\* degrees + minutes/60 + seconds/3600, negated if and only if the last
\* character of the string is S or W, wherever else S or W occurs.
C6_HemisphereSign ==
    deg_res.status = "ok" =>
        /\ ScanMagnitude(deg_str)[1] >= 0
        /\ LastChar(deg_str) \in {"S", "W"} =>
             deg_res.value = RNeg(ScanMagnitude(deg_str))
        /\ LastChar(deg_str) \notin {"S", "W"} =>
             deg_res.value = ScanMagnitude(deg_str)

C6_Witness ==
    /\ deg_res.status = "ok"
    /\ LastChar(deg_str) = "N"
    /\ \E i \in 1..Len(deg_str) - 1 : deg_str[i] \in {"S", "W"}
    /\ deg_res.value[1] > 0

(***************************************************************************)
(* C7                                                                      *)
(***************************************************************************)
\* what both forms of C7 say of a run with --gps whose first record lacking
\* a component is k: nothing after record k is processed, nothing is written
RunStopsAt(k) ==
    /\ idx <= k
    /\ Len(df) < k
    /\ \A e \in Range(log) : e.i \in 1..k
    /\ pc \notin {"select", "to_csv", "done"}
    /\ pc = "append" => idx < k
    /\ csv = <<>>
    /\ pc = "failed" => idx = k

C8_LeadingRunIgnored ==
    (deg_res.status # "pending" /\ HasLeadingRun(deg_str)) =>
        LET r == DegreeToFloat(WithoutLeadingRun(deg_str))
        IN  r.status = "ok" =>
                /\ deg_res.status = "ok"
                /\ RAbs(deg_res.value) = RAbs(r.value)

\* C8 as amended: the string is cut at every maximal run of non-numeric
\* characters and the empty fragments are kept; the first three fragments
\* are degrees, minutes, seconds in that order, so the call succeeds exactly
\* when the string starts with a number followed by two more numbers, each
\* after one separator run; a string with a leading non-numeric run has an
\* empty first fragment and fails with a ValueError.
C8_SplitKeepsEmpty ==
    deg_res.status # "pending" =>
        /\ deg_res.status = "ok" <=> ScanOk(deg_str)
        /\ deg_res.status = "ok" =>
             RAbs(deg_res.value) = ScanMagnitude(deg_str)
        /\ HasLeadingRun(deg_str) => deg_res.status = "ValueError"

C8_Witness ==
    /\ deg_res.status = "ValueError"
    /\ HasLeadingRun(deg_str)
    /\ DegreeToFloat(WithoutLeadingRun(deg_str)).status = "ok"

(***************************************************************************)
(* C9                                                                      *)
(***************************************************************************)
\* C9: rows are built and written in input order, each record is normalised
\* before its coordinates are resolved, and the cumulative accumulator is
\* normalised and appended after all image records.
C9_OrderPreserved ==
    /\ Len(df) <= NumImages + 1
    /\ \A i \in DOMAIN df :
         /\ i <= NumImages => df[i]["path"] = stats_json.image_stats[i]["path"]
         /\ df[i]["path"] = "cumulative" <=> i = NumImages + 1
    /\ pc = "done" =>
         /\ \A i \in 1..NumImages :
              csv[i + 1][1] = <<stats_json.image_stats[i]["path"]>>
         /\ csv[NumImages + 2][1] = <<"cumulative">>
    /\ \A k \in DOMAIN log :
         /\ log[k].op = "add_gps_coords" =>
              k > 1 /\ log[k - 1] = [op |-> "normalize_stats", i |-> log[k].i]
         /\ log[k].i = 0 =>
              /\ k = Len(log)
              /\ {log[j].i : j \in 1..k - 1} = 1..NumImages
         /\ \A j \in 1..k - 1 : log[k].i # 0 => log[j].i <= log[k].i
    /\ pc = "gps" => "mean" \in DOMAIN im_stat /\ "latitude" \notin DOMAIN im_stat

C9_Witness ==
    /\ pc = "done" /\ args.gps
    /\ NumImages = MaxImages
    /\ Len(csv) = NumImages + 2

(***************************************************************************)
(* C10                                                                     *)
(***************************************************************************)
\* C10: easting and northing are among the selected columns if and only if
\* the Transformer was made, for every flag combination.
C10_AdapterIffProjectedCols ==
    pc \notin {"idle", "start"} =>
        ({"easting", "northing"} \subseteq Range(SelectedCols(args)) <=> proj_t # None)

====
